---------------------------- MODULE Spec2Model ----------------------------
(***************************************************************************)
(* A model of the matchers of go-finddd (match.go).                        *)
(*                                                                         *)
(* A matcher object is a record tagged with its concrete type ("kind")    *)
(* and holding the fields of the Go struct.  A path is a sequence of      *)
(* one-character strings.  The result of a Match call is "true", "false"  *)
(* or "panic" (the call did not return: assert / panic unwound it).       *)
(* The filesystem is external: what fs.Stat and fs.ReadDir answer for the  *)
(* path is an input of each call, and is taken to be the same for every   *)
(* member a MultiMatcher consults during one Match call.                  *)
(***************************************************************************)
EXTENDS Integers, Sequences, FiniteSets, TLC

VARIABLES
    m,      \* the matcher object (its struct fields)
    call,   \* the last Match call on m: its inputs, m before it, its result
    hist,   \* results returned so far by MaxResultMatcher.Match on m
    pc,     \* concurrent callers: position of each inside MaxResultMatcher.Match
    ok,     \* concurrent callers: the local variable ok
    tmp,    \* concurrent callers: the value of m.count loaded by "m.count += 1"
    ret     \* concurrent callers: the value returned

vars == <<m, call, hist, pc, ok, tmp, ret>>

-----------------------------------------------------------------------------
(* Bounds of the model *)

MaxPathLen == 4     \* longest path string
MaxSize    == 2     \* largest file size and size bound
MaxTime    == 2     \* latest instant (mtime and cutoffs)
MaxEntries == 1     \* most entries a directory listing holds
MaxTypes   == 2     \* most file types configured in a FiletypeMatcher
MaxDepth   == 2     \* largest depth bound
MaxCap     == 2     \* largest result cap
MaxCalls   == 4     \* most calls recorded on one MaxResultMatcher
MaxMembers == 2     \* most members of a MultiMatcher
NumCallers == 3     \* concurrent callers of MaxResultMatcher.Match

-----------------------------------------------------------------------------
(* Strings: strings, path/filepath *)

Chars == {"/", ".", ":", "r"}

RECURSIVE SeqsUpTo(_, _)
SeqsUpTo(S, n) ==
    IF n = 0 THEN {<<>>}
    ELSE LET shorter == SeqsUpTo(S, n - 1)
         IN  shorter \cup {Append(s, c) : s \in {t \in shorter : Len(t) = n - 1}, c \in S}

Paths == SeqsUpTo(Chars, MaxPathLen)

\* strings.HasPrefix(s, prefix)
HasPrefix(s, prefix) ==
    Len(s) >= Len(prefix) /\ SubSeq(s, 1, Len(prefix)) = prefix

\* strings.Split(s, sep) for a one-character sep: the pieces between separators
RECURSIVE Split(_, _)
Split(s, sep) ==
    IF \A i \in 1..Len(s) : s[i] # sep THEN <<s>>
    ELSE LET i == CHOOSE j \in 1..Len(s) :
                      s[j] = sep /\ \A k \in 1..(j - 1) : s[k] # sep
         IN  <<SubSeq(s, 1, i - 1)>> \o Split(SubSeq(s, i + 1, Len(s)), sep)

\* strings.Join(elems, sep)
RECURSIVE Join(_, _)
Join(elems, sep) ==
    IF Len(elems) = 0 THEN <<>>
    ELSE IF Len(elems) = 1 THEN elems[1]
    ELSE elems[1] \o <<sep>> \o Join(Tail(elems), sep)

\* the path without its trailing slashes
RECURSIVE StripTrailingSlashes(_)
StripTrailingSlashes(p) ==
    IF Len(p) > 0 /\ p[Len(p)] = "/"
    THEN StripTrailingSlashes(SubSeq(p, 1, Len(p) - 1))
    ELSE p

\* filepath.Base(path): the last element of path; "." for the empty path,
\* "/" for a path of slashes only
Base(p) ==
    IF Len(p) = 0 THEN <<".">>
    ELSE LET q == StripTrailingSlashes(p)
         IN  IF Len(q) = 0 THEN <<"/">>
             ELSE LET elems == Split(q, "/") IN elems[Len(elems)]

\* filepath.Clean's walk over the elements of a path: empty and "." elements
\* are dropped, ".." removes the element before it, is dropped at the root and
\* is kept at the start of a relative path
RECURSIVE CleanElems(_, _, _)
CleanElems(elems, out, rooted) ==
    IF Len(elems) = 0 THEN out
    ELSE LET e    == elems[1]
             rest == Tail(elems)
         IN  IF e = <<>> \/ e = <<".">> THEN CleanElems(rest, out, rooted)
             ELSE IF e = <<".", ".">> THEN
                 IF Len(out) > 0 /\ out[Len(out)] # <<".", ".">>
                 THEN CleanElems(rest, SubSeq(out, 1, Len(out) - 1), rooted)
                 ELSE IF rooted THEN CleanElems(rest, out, rooted)
                 ELSE CleanElems(rest, Append(out, e), rooted)
             ELSE CleanElems(rest, Append(out, e), rooted)

\* filepath.Clean(path): the shortest equivalent path, "." for an empty one
Clean(p) ==
    IF Len(p) = 0 THEN <<".">>
    ELSE LET rooted == p[1] = "/"
             out    == Join(CleanElems(Split(p, "/"), <<>>, rooted), "/")
         IN  IF rooted THEN <<"/">> \o out
             ELSE IF Len(out) = 0 THEN <<".">> ELSE out

\* filepath.SplitList(path): the elements of a PATH-like list, separated by
\* the OS list separator ':'; no element for the empty string
SplitList(p) == IF Len(p) = 0 THEN <<>> ELSE Split(p, ":")

-----------------------------------------------------------------------------
(* What the filesystem answers for a path: fs.Stat and fs.ReadDir *)

\* the type bits of fs.FileMode (fs.ModeType is their union)
ModeType == {"ModeDir", "ModeSymlink", "ModeNamedPipe", "ModeSocket",
             "ModeDevice", "ModeCharDevice", "ModeIrregular"}

S_IXUSR == 64
S_IXGRP == 8
S_IXOTH == 1

\* the bitwise AND of two naturals
RECURSIVE BitAnd(_, _)
BitAnd(a, b) ==
    IF a = 0 \/ b = 0 THEN 0
    ELSE (a % 2) * (b % 2) + 2 * BitAnd(a \div 2, b \div 2)

\* the modes the filesystem reports: at most one type bit, and the permission
\* bits 0644, 0755 or 0641
Modes == [type : {{}} \cup {{b} : b \in {"ModeDir", "ModeSymlink", "ModeNamedPipe",
                                          "ModeSocket", "ModeDevice"}},
          perm : {420, 493, 417}]

StatErr == [err |-> TRUE]
StatOk  == [err : {FALSE}, mode : Modes, size : 0..MaxSize, mtime : 0..MaxTime]

ReadDirErr == [err |-> TRUE]
ReadDirOk  == [err : {FALSE}, n : 0..MaxEntries]

\* a failed stat is paired with a failed listing only
FsAnswers ==
    {[stat |-> StatErr, dir |-> ReadDirErr]}
        \cup [stat : StatOk, dir : {ReadDirErr} \cup ReadDirOk]

-----------------------------------------------------------------------------
(* Results *)

\* a Go bool returned by Match
Ret(b) == IF b THEN "true" ELSE "false"

\* a bug: the assertion is compiled out
assert_Disabled(cond, rest) == rest

\* assert(ok, msg); rest: a failed assertion panics, otherwise the code goes on
assert(cond, rest) == IF cond THEN rest ELSE "panic"

-----------------------------------------------------------------------------
(* FiletypeMatcher *)

FT_FILE       == "f"
FT_DIRECTORY  == "d"
FT_SYMLINK    == "l"
FT_EXECUTABLE == "x"
FT_EMPTY      == "e"
FT_SOCKET     == "s"
FT_PIPE       == "p"

FileTypes == {FT_FILE, FT_DIRECTORY, FT_SYMLINK, FT_EXECUTABLE, FT_EMPTY,
              FT_SOCKET, FT_PIPE}

\* fns[FT_FILE]: mode&fs.ModeType == 0
IsFile(mode) == mode.type \cap ModeType = {}
\* fns[FT_DIRECTORY]: mode&fs.ModeDir == 0
IsDirectory(mode) == "ModeDir" \notin mode.type
\* fns[FT_SYMLINK]: mode&fs.ModeSymlink == 0
IsSymlink(mode) == "ModeSymlink" \notin mode.type
\* fns[FT_EXECUTABLE]: mode&xmode > 0
IsExecutable(mode) ==
    LET xmode == S_IXUSR + S_IXGRP + S_IXOTH
    IN  BitAnd(mode.perm, xmode) > 0
\* fns[FT_SOCKET]: mode&fs.ModeSocket == 0
IsSocket(mode) == "ModeSocket" \notin mode.type
\* fns[FT_PIPE]: mode&fs.ModeNamedPipe == 0
IsPipe(mode) == "ModeNamedPipe" \notin mode.type
\* fns[FT_EMPTY]
IsEmpty(f) ==
    IF IsFile(f.stat.mode) THEN f.stat.size = 0
    ELSE IF IsDirectory(f.stat.mode)
         THEN IF f.dir.err THEN FALSE ELSE f.dir.n = 0
         ELSE FALSE

\* fns[ft](): "true", "false", or "panic" for a type the map has no entry for
\* (the call of a nil func)
FileTypeTest(ft, f) ==
    CASE ft = FT_FILE       -> Ret(IsFile(f.stat.mode))
      [] ft = FT_DIRECTORY  -> Ret(IsDirectory(f.stat.mode))
      [] ft = FT_SYMLINK    -> Ret(IsSymlink(f.stat.mode))
      [] ft = FT_EXECUTABLE -> Ret(IsExecutable(f.stat.mode))
      [] ft = FT_SOCKET     -> Ret(IsSocket(f.stat.mode))
      [] ft = FT_PIPE       -> Ret(IsPipe(f.stat.mode))
      [] ft = FT_EMPTY      -> Ret(IsEmpty(f))
      [] OTHER              -> "panic"

\* for _, ft := range m.ftypes { if fns[ft]() { return true } }; return false
RECURSIVE FiletypeLoop(_, _)
FiletypeLoop(ftypes, f) ==
    IF Len(ftypes) = 0 THEN "false"
    ELSE LET r == FileTypeTest(ftypes[1], f)
         IN  IF r = "false" THEN FiletypeLoop(Tail(ftypes), f) ELSE r

FiletypeMatcherMatch(mt, f) ==
    IF Len(mt.ftypes) = 0 THEN "true"
    ELSE IF f.stat.err THEN "false"
    ELSE FiletypeLoop(mt.ftypes, f)

\* NewFiletypeMatcher(WithFileTypes(ftypes...)), or with no option
NewFiletypeMatcher(ftypes) == [kind |-> "filetype", ftypes |-> ftypes]

-----------------------------------------------------------------------------
(* ChangeTimeMatcher: a *time.Time is <<>> (nil) or <<t>> *)

\* t.Before(u)
Before(t, u) == t < u
\* t.After(u)
After(t, u) == t > u

\* a bug: a file modified exactly at a cutoff is let through
ChangeTimeMatcherMatch_Inclusive(mt, f) ==
    IF mt.older = <<>> /\ mt.newer = <<>> THEN "true"
    ELSE IF f.stat.err THEN "false"
    ELSE LET mtime == f.stat.mtime
             ok1   == IF mt.older # <<>> THEN ~After(mt.older[1], mtime) ELSE TRUE
         IN  IF mt.newer # <<>>
             THEN assert(mt.older # <<>> => Before(mt.older[1], mt.newer[1]),
                         Ret(ok1 /\ ~Before(mt.newer[1], mtime)))
             ELSE Ret(ok1)

ChangeTimeMatcherMatch(mt, f) ==
    IF mt.older = <<>> /\ mt.newer = <<>> THEN "true"
    ELSE IF f.stat.err THEN "false"
    ELSE LET mtime == f.stat.mtime
             ok1   == IF mt.older # <<>> THEN Before(mt.older[1], mtime) ELSE TRUE
         IN  IF mt.newer # <<>>
             THEN assert(mt.older # <<>> => Before(mt.older[1], mt.newer[1]),
                         Ret(ok1 /\ After(mt.newer[1], mtime)))
             ELSE Ret(ok1)

\* NewChangeTimeMatcher(WithTimeOlder(older), WithTimeNewer(newer))
NewChangeTimeMatcher(older, newer) ==
    [kind |-> "changetime", older |-> older, newer |-> newer]

-----------------------------------------------------------------------------
(* SizeMatcher: a negative bound is unset *)

\* a bug: a file of exactly max bytes is left out
SizeMatcherMatch_ExclusiveMax(mt, f) ==
    IF mt.min < 0 /\ mt.max < 0 THEN "true"
    ELSE IF f.stat.err THEN "false"
    ELSE LET size == f.stat.size
             ok1  == IF mt.min >= 0 THEN size >= mt.min ELSE TRUE
         IN  IF mt.max >= 0
             THEN assert(mt.min <= mt.max, Ret(ok1 /\ size < mt.max))
             ELSE Ret(ok1)

\* a bug: the bounds are asserted before the stat is looked at
SizeMatcherMatch_AssertBeforeStat(mt, f) ==
    IF mt.min < 0 /\ mt.max < 0 THEN "true"
    ELSE IF mt.max >= 0 /\ ~(mt.min <= mt.max) THEN "panic"
    ELSE IF f.stat.err THEN "false"
    ELSE LET size == f.stat.size
             ok1  == IF mt.min >= 0 THEN size >= mt.min ELSE TRUE
         IN  IF mt.max >= 0 THEN Ret(ok1 /\ size <= mt.max) ELSE Ret(ok1)

SizeMatcherMatch(mt, f) ==
    IF mt.min < 0 /\ mt.max < 0 THEN "true"
    ELSE IF f.stat.err THEN "false"
    ELSE LET size == f.stat.size
             ok1  == IF mt.min >= 0 THEN size >= mt.min ELSE TRUE
         IN  IF mt.max >= 0
             THEN assert(mt.min <= mt.max, Ret(ok1 /\ size <= mt.max))
             ELSE Ret(ok1)

\* NewSizeMatcher(WithMinSize(min), WithMaxSize(max)); -1 without the option
NewSizeMatcher(min, max) == [kind |-> "size", min |-> min, max |-> max]

-----------------------------------------------------------------------------
(* HiddenMatcher *)

HiddenMatcherMatch(mt, path) ==
    IF mt.hidden THEN "true"
    ELSE Ret(HasPrefix(Base(path), <<".">>))

\* NewHiddenMatcher(WithHidden(hidden)); false without the option
NewHiddenMatcher(hidden) == [kind |-> "hidden", hidden |-> hidden]

-----------------------------------------------------------------------------
(* DepthMatcher *)

\* depth := len(m.cur) - len(filepath.SplitList(path)), path cleaned first
Depth(cur, path) == Len(cur) - Len(SplitList(Clean(path)))

DepthMatcherMatch(mt, path) ==
    LET depth == Depth(mt.cur, path)
        ok1   == IF mt.min >= 0 THEN depth >= mt.min ELSE TRUE
    IN  IF mt.max >= 0
        THEN assert(mt.min <= mt.max, Ret(ok1 /\ depth <= mt.max))
        ELSE Ret(ok1)

\* NewDepthMatcher(cur, WithMinDepth(min), WithMaxDepth(max)); WithExactDepth(d)
\* is min = max = d
NewDepthMatcher(cur, min, max) ==
    [kind |-> "depth", cur |-> SplitList(Clean(cur)), min |-> min, max |-> max]

-----------------------------------------------------------------------------
(* MaxResultMatcher *)

\* a bug: the counter is compared with <=, so max + 1 calls succeed
MaxResultMatcherMatch_OffByOne(mt) ==
    IF mt.max < 0 THEN [res |-> "true", mt |-> mt]
    ELSE LET ok1 == mt.count <= mt.max
         IN  [res |-> Ret(ok1),
              mt  |-> IF ok1 THEN [mt EXCEPT !.count = @ + 1] ELSE mt]

\* Match run as one step: the result and the matcher afterwards
MaxResultMatcherMatch(mt) ==
    IF mt.max < 0 THEN [res |-> "true", mt |-> mt]
    ELSE LET ok1 == mt.count < mt.max
         IN  [res |-> Ret(ok1),
              mt  |-> IF ok1 THEN [mt EXCEPT !.count = @ + 1] ELSE mt]

\* NewMaxResultMatcher(WithMaxResult(max)); -1 without the option
NewMaxResultMatcher(max) == [kind |-> "maxresult", count |-> 0, max |-> max]

-----------------------------------------------------------------------------
(* MultiMatcher *)

\* v.Match(fsys, path) on a member v: the result and the member afterwards
\* (only a MaxResultMatcher changes)
MatcherMatch(mt, path, f) ==
    CASE mt.kind = "size"       -> [res |-> SizeMatcherMatch(mt, f), mt |-> mt]
      [] mt.kind = "changetime" -> [res |-> ChangeTimeMatcherMatch(mt, f), mt |-> mt]
      [] mt.kind = "filetype"   -> [res |-> FiletypeMatcherMatch(mt, f), mt |-> mt]
      [] mt.kind = "hidden"     -> [res |-> HiddenMatcherMatch(mt, path), mt |-> mt]
      [] mt.kind = "depth"      -> [res |-> DepthMatcherMatch(mt, path), mt |-> mt]
      [] mt.kind = "maxresult"  -> MaxResultMatcherMatch(mt)

\* a bug: every member is invoked, and the results are combined afterwards
RECURSIVE MultiLoop_NoShortCircuit(_, _, _, _)
MultiLoop_NoShortCircuit(ms, i, path, f) ==
    IF i > Len(ms) THEN [res |-> "true", ms |-> ms, invoked |-> Len(ms)]
    ELSE LET r == MatcherMatch(ms[i], path, f)
             rest == MultiLoop_NoShortCircuit([ms EXCEPT ![i] = r.mt], i + 1, path, f)
         IN  IF r.res = "true" THEN rest
             ELSE [res |-> r.res, ms |-> rest.ms, invoked |-> rest.invoked]

\* for _, v := range m.ms { if !v.Match(fsys, path) { return false } }; return true
\* from member i on: the result, the members afterwards, and how many members
\* were invoked.  A member that panics ends the loop with its panic.
RECURSIVE MultiLoop(_, _, _, _)
MultiLoop(ms, i, path, f) ==
    IF i > Len(ms) THEN [res |-> "true", ms |-> ms, invoked |-> Len(ms)]
    ELSE LET r == MatcherMatch(ms[i], path, f)
             after == [ms EXCEPT ![i] = r.mt]
         IN  IF r.res = "true" THEN MultiLoop(after, i + 1, path, f)
             ELSE [res |-> r.res, ms |-> after, invoked |-> i]

MultiMatcherMatch(mt, path, f) == MultiLoop(mt.ms, 1, path, f)

\* m.ms = append(m.ms, v)
MultiMatcherAdd(mt, v) == [mt EXCEPT !.ms = Append(@, v)]

\* &MultiMatcher{}
NewMultiMatcher == [kind |-> "multi", ms |-> <<>>]

-----------------------------------------------------------------------------
(* The matchers and inputs of the model *)

SizeMatchers == {NewSizeMatcher(min, max) : min, max \in -1..MaxSize}

Instants == {<<>>} \cup {<<t>> : t \in 0..MaxTime}
ChangeTimeMatchers ==
    {NewChangeTimeMatcher(older, newer) : older, newer \in Instants}

FiletypeMatchers == {NewFiletypeMatcher(fts) : fts \in SeqsUpTo(FileTypes, MaxTypes)}

HiddenMatchers == {NewHiddenMatcher(h) : h \in BOOLEAN}

\* the roots "/r", "/" and "r:r"
Roots == {<<"/", "r">>, <<"/">>, <<"r", ":", "r">>}
DepthMatchers ==
    {NewDepthMatcher(cur, min, max) : cur \in Roots, min, max \in -1..MaxDepth}

MaxResultMatchers == {NewMaxResultMatcher(max) : max \in -1..MaxCap}

\* the matchers added to a MultiMatcher
Members ==
    { NewHiddenMatcher(FALSE),
      NewSizeMatcher(1, -1),
      NewSizeMatcher(2, 1),
      NewChangeTimeMatcher(<<0>>, <<>>),
      NewFiletypeMatcher(<<FT_EXECUTABLE>>),
      NewDepthMatcher(<<"/", "r">>, -1, 0),
      NewDepthMatcher(<<"/", "r">>, 1, 0),
      NewMaxResultMatcher(1) }

\* the paths "/r" and "/.r" and the answers of the filesystem a MultiMatcher
\* is evaluated on: no answer, or a regular file
MultiPaths == {<<"/", "r">>, <<"/", ".", "r">>}
MultiFsAnswers ==
    {a \in FsAnswers :
        /\ a.dir.err
        /\ ~a.stat.err =>
              /\ a.stat.mode.type = {}
              /\ a.stat.mode.perm \in {420, 493}
              /\ a.stat.size = a.stat.mtime
              /\ a.stat.size \in {0, MaxSize}}

Callers == 1..NumCallers

-----------------------------------------------------------------------------
(* Sequential use: one matcher, one Match call at a time *)

Idle ==
    /\ pc  = [p \in Callers |-> "idle"]
    /\ ok  = [p \in Callers |-> FALSE]
    /\ tmp = [p \in Callers |-> 0]
    /\ ret = [p \in Callers |-> "none"]

\* A matcher without mutable state is called once in a behaviour: its Match
\* leaves it as it was, so a further call starts from the same matcher.
Fresh == call.op = "none"

Init ==
    /\ m \in SizeMatchers \cup ChangeTimeMatchers \cup FiletypeMatchers
                \cup HiddenMatchers \cup DepthMatchers \cup MaxResultMatchers
                \cup {NewMultiMatcher}
    /\ call = [op |-> "none"]
    /\ hist = <<>>
    /\ Idle

SizeMatch ==
    /\ m.kind = "size"
    /\ Fresh
    /\ \E f \in FsAnswers :
          call' = [op |-> "size", f |-> f, pre |-> m, res |-> SizeMatcherMatch(m, f)]
    /\ UNCHANGED <<m, hist, pc, ok, tmp, ret>>

ChangeTimeMatch ==
    /\ m.kind = "changetime"
    /\ Fresh
    /\ \E f \in FsAnswers :
          call' = [op |-> "changetime", f |-> f, pre |-> m,
                   res |-> ChangeTimeMatcherMatch(m, f)]
    /\ UNCHANGED <<m, hist, pc, ok, tmp, ret>>

FiletypeMatch ==
    /\ m.kind = "filetype"
    /\ Fresh
    /\ \E f \in FsAnswers :
          call' = [op |-> "filetype", f |-> f, pre |-> m,
                   res |-> FiletypeMatcherMatch(m, f)]
    /\ UNCHANGED <<m, hist, pc, ok, tmp, ret>>

HiddenMatch ==
    /\ m.kind = "hidden"
    /\ Fresh
    /\ \E path \in Paths :
          call' = [op |-> "hidden", path |-> path, pre |-> m,
                   res |-> HiddenMatcherMatch(m, path)]
    /\ UNCHANGED <<m, hist, pc, ok, tmp, ret>>

DepthMatch ==
    /\ m.kind = "depth"
    /\ Fresh
    /\ \E path \in Paths :
          call' = [op |-> "depth", path |-> path, pre |-> m,
                   res |-> DepthMatcherMatch(m, path)]
    /\ UNCHANGED <<m, hist, pc, ok, tmp, ret>>

MaxResultMatch ==
    /\ m.kind = "maxresult"
    /\ Len(hist) < MaxCalls
    /\ LET r == MaxResultMatcherMatch(m)
       IN  /\ m' = r.mt
           /\ call' = [op |-> "maxresult", pre |-> m, res |-> r.res]
           /\ hist' = Append(hist, r.res)
    /\ UNCHANGED <<pc, ok, tmp, ret>>

MultiAdd ==
    /\ m.kind = "multi"
    /\ Len(m.ms) < MaxMembers
    /\ \E v \in Members : m' = MultiMatcherAdd(m, v)
    /\ call' = [op |-> "add", pre |-> m]
    /\ UNCHANGED <<hist, pc, ok, tmp, ret>>

MultiMatch ==
    /\ m.kind = "multi"
    /\ \E path \in MultiPaths, f \in MultiFsAnswers :
          LET r == MultiMatcherMatch(m, path, f)
          IN  /\ m' = [m EXCEPT !.ms = r.ms]
              /\ call' = [op |-> "multi", path |-> path, f |-> f, pre |-> m,
                          res |-> r.res, invoked |-> r.invoked]
    /\ UNCHANGED <<hist, pc, ok, tmp, ret>>

Next ==
    \/ SizeMatch
    \/ ChangeTimeMatch
    \/ FiletypeMatch
    \/ HiddenMatch
    \/ DepthMatch
    \/ MaxResultMatch
    \/ MultiAdd
    \/ MultiMatch

Spec == Init /\ [][Next]_vars

-----------------------------------------------------------------------------
(* Concurrent use of one MaxResultMatcher: every caller makes one Match call. *)
(* The reads and the write of m.count are not synchronised, so each is a step *)
(* of its own; m.max is written by no caller.                                 *)

ConcInit ==
    /\ m \in {NewMaxResultMatcher(max) : max \in -1..NumCallers}
    /\ call = [op |-> "none"]
    /\ hist = <<>>
    /\ pc  = [p \in Callers |-> "start"]
    /\ ok  = [p \in Callers |-> FALSE]
    /\ tmp = [p \in Callers |-> 0]
    /\ ret = [p \in Callers |-> "none"]

\* if m.max < 0 { return true }; ok := m.count < m.max; if ok {...}; return ok
Compare(p) ==
    /\ pc[p] = "start"
    /\ IF m.max < 0
       THEN /\ pc' = [pc EXCEPT ![p] = "done"]
            /\ ret' = [ret EXCEPT ![p] = "true"]
            /\ UNCHANGED ok
       ELSE /\ ok' = [ok EXCEPT ![p] = m.count < m.max]
            /\ IF m.count < m.max
               THEN pc' = [pc EXCEPT ![p] = "load"] /\ UNCHANGED ret
               ELSE /\ pc' = [pc EXCEPT ![p] = "done"]
                    /\ ret' = [ret EXCEPT ![p] = "false"]
    /\ UNCHANGED <<m, call, hist, tmp>>

\* m.count += 1: the load
Load(p) ==
    /\ pc[p] = "load"
    /\ tmp' = [tmp EXCEPT ![p] = m.count]
    /\ pc' = [pc EXCEPT ![p] = "store"]
    /\ UNCHANGED <<m, call, hist, ok, ret>>

\* m.count += 1: the store; return ok
Store(p) ==
    /\ pc[p] = "store"
    /\ m' = [m EXCEPT !.count = tmp[p] + 1]
    /\ pc' = [pc EXCEPT ![p] = "done"]
    /\ ret' = [ret EXCEPT ![p] = Ret(ok[p])]
    /\ UNCHANGED <<call, hist, ok, tmp>>

ConcNext == \E p \in Callers : Compare(p) \/ Load(p) \/ Store(p)

SpecConc == ConcInit /\ [][ConcNext]_vars

-----------------------------------------------------------------------------
(* Properties *)

Min(a, b) == IF a < b THEN a ELSE b

AllDone == \A p \in Callers : pc[p] = "done"

\* C1: with max = k >= 0 and N >= k concurrent Match calls on a fresh
\* MaxResultMatcher, once all calls have returned exactly k of them have
\* returned true and the others false, whatever the interleaving.
C1_ExactlyCapSucceed ==
    (AllDone /\ m.max >= 0) =>
        /\ Cardinality({p \in Callers : ret[p] = "true"}) = m.max
        /\ Cardinality({p \in Callers : ret[p] = "false"}) = NumCallers - m.max

\* C2: called sequentially with max = k >= 0, the counter starts at 0, the
\* i-th call returns true exactly when i <= k, every call that returns true
\* adds one to the counter, a call at count = k returns false and leaves the
\* counter alone, and 0 <= count <= k throughout (also for a MaxResultMatcher
\* that is a member of a MultiMatcher).
C2_SequentialCap ==
    /\ m.kind = "multi" =>
          \A j \in 1..Len(m.ms) :
              (m.ms[j].kind = "maxresult" /\ m.ms[j].max >= 0) =>
                  0 <= m.ms[j].count /\ m.ms[j].count <= m.ms[j].max
    /\ (m.kind = "maxresult" /\ m.max >= 0) =>
        /\ 0 <= m.count /\ m.count <= m.max
        /\ \A i \in 1..Len(hist) : hist[i] = Ret(i <= m.max)
        /\ m.count = Min(Len(hist), m.max)
        /\ call.op = "maxresult" =>
              /\ call.res = "true" =>
                    call.pre.count < m.max /\ m.count = call.pre.count + 1
              /\ call.res = "false" =>
                    call.pre.count = m.max /\ m.count = call.pre.count
              /\ call.res # "panic"

\* Scenario 4 scaled to the model: with max = 2 the third call is the first
\* one to return false.
C2_Witness ==
    /\ m.kind = "maxresult" /\ m.max = 2 /\ m.count = 2
    /\ hist = <<"true", "true", "false">>

\* what member j of the MultiMatcher answers in the recorded call, and what
\* it is afterwards, were it invoked
MemberOutcome(j) == MatcherMatch(call.pre.ms[j], call.path, call.f)

\* C3: MultiMatcher.Match invokes its members in the order they were added up
\* to and including the first one that does not return true and no member
\* after it (a MaxResultMatcher after it keeps its counter); it returns true
\* exactly when every member returns true, in particular when it has no
\* member, and otherwise what that first member did (false, or its panic).
C3_ShortCircuitAnd ==
    call.op = "multi" =>
        LET n     == Len(call.pre.ms)
            stops == {j \in 1..n : MemberOutcome(j).res # "true"}
        IN  /\ Len(m.ms) = n
            /\ n = 0 => call.res = "true"
            /\ (call.res = "true") <=> (\A j \in 1..n : MemberOutcome(j).res = "true")
            /\ stops = {} =>
                  /\ call.invoked = n
                  /\ \A j \in 1..n : m.ms[j] = MemberOutcome(j).mt
            /\ stops # {} =>
                  LET first == CHOOSE j \in stops : \A k \in stops : j <= k
                  IN  /\ call.res = MemberOutcome(first).res
                      /\ call.invoked = first
                      /\ \A j \in 1..first : m.ms[j] = MemberOutcome(j).mt
                      /\ \A j \in (first + 1)..n : m.ms[j] = call.pre.ms[j]

\* a MaxResultMatcher with results left stands after a member that returned
\* false, and was not invoked
C3_Witness ==
    /\ call.op = "multi" /\ call.res = "false"
    /\ \E j \in 1..Len(call.pre.ms) :
          /\ j > call.invoked
          /\ call.pre.ms[j].kind = "maxresult"
          /\ call.pre.ms[j].count < call.pre.ms[j].max
          /\ m.ms[j].count = call.pre.ms[j].count

\* C4: with hidden = false HiddenMatcher.Match returns true exactly for the
\* paths whose base name does not begin with a dot; with hidden = true it
\* returns true for every path.
C4_HiddenExcludesDotNames ==
    call.op = "hidden" =>
        IF call.pre.hidden THEN call.res = "true"
        ELSE (call.res = "true") <=> ~HasPrefix(Base(call.path), <<".">>)

\* the names on the way from the root directory (or, for a relative path, from
\* the working directory) to the path
Components(path) ==
    SelectSeq(Split(Clean(path), "/"), LAMBDA e : e # <<>> /\ e # <<".">>)

IsRooted(path) == Len(path) > 0 /\ path[1] = "/"

\* path lies d elements below root
Below(root, path, d) ==
    LET rc == Components(root)
        pc1 == Components(path)
    IN  /\ IsRooted(root) = IsRooted(path)
        /\ Len(pc1) = Len(rc) + d
        /\ SubSeq(pc1, 1, Len(rc)) = rc

\* C5: with both depth bounds set and min <= max (exact depth d: min = max =
\* d), DepthMatcher.Match returns true for a path under the root exactly when
\* the path lies between min and max elements below the root.
C5_DepthBelowRoot ==
    (/\ call.op = "depth"
     /\ call.pre.min >= 0 /\ call.pre.min <= call.pre.max
     /\ \E d \in 0..MaxPathLen : Below(Join(call.pre.cur, ":"), call.path, d)) =>
        ((call.res = "true") <=>
            \E d \in call.pre.min..call.pre.max :
                Below(Join(call.pre.cur, ":"), call.path, d))

\* what the path's metadata must be for a file type to be satisfied
Satisfies(ft, f) ==
    CASE ft = FT_FILE       -> f.stat.mode.type = {}
      [] ft = FT_DIRECTORY  -> "ModeDir" \in f.stat.mode.type
      [] ft = FT_SYMLINK    -> "ModeSymlink" \in f.stat.mode.type
      [] ft = FT_SOCKET     -> "ModeSocket" \in f.stat.mode.type
      [] ft = FT_PIPE       -> "ModeNamedPipe" \in f.stat.mode.type
      [] ft = FT_EXECUTABLE -> \E b \in {S_IXUSR, S_IXGRP, S_IXOTH} :
                                   (f.stat.mode.perm \div b) % 2 = 1
      [] ft = FT_EMPTY      ->
            \/ f.stat.mode.type = {} /\ f.stat.size = 0
            \/ "ModeDir" \in f.stat.mode.type /\ ~f.dir.err /\ f.dir.n = 0

\* C6: when the stat succeeds, FiletypeMatcher.Match with a non-empty list of
\* types returns true exactly when the metadata satisfies one of them (the
\* type bit is set for d, l, s, p); with no type it returns true.
C6_FiletypeAnyTypeSatisfied ==
    (call.op = "filetype" /\ ~call.f.stat.err) =>
        IF Len(call.pre.ftypes) = 0 THEN call.res = "true"
        ELSE (call.res = "true") <=>
                \E i \in 1..Len(call.pre.ftypes) : Satisfies(call.pre.ftypes[i], call.f)

\* C7: when the stat succeeds and min <= max if both are set, SizeMatcher.Match
\* returns true exactly when min <= size <= max, both ends included, a negative
\* bound not constraining its side; otherwise it returns false.
C7_SizeClosedInterval ==
    (/\ call.op = "size" /\ ~call.f.stat.err
     /\ (call.pre.min >= 0 /\ call.pre.max >= 0) => call.pre.min <= call.pre.max) =>
        /\ call.res \in {"true", "false"}
        /\ (call.res = "true") <=>
              /\ call.pre.min >= 0 => call.pre.min <= call.f.stat.size
              /\ call.pre.max >= 0 => call.f.stat.size <= call.pre.max

\* Scenario 2 scaled to the model: a file as large as max, above min, matches
C7_Witness ==
    /\ call.op = "size" /\ ~call.f.stat.err
    /\ call.pre.min = 0 /\ call.pre.max = MaxSize - 1
    /\ call.f.stat.size = call.pre.max
    /\ call.res = "true"

\* C8: when the stat succeeds and older < newer if both are set,
\* ChangeTimeMatcher.Match returns true exactly when older < mtime < newer,
\* both ends excluded, a nil cutoff not constraining its side; otherwise it
\* returns false.
C8_TimeOpenInterval ==
    (/\ call.op = "changetime" /\ ~call.f.stat.err
     /\ (call.pre.older # <<>> /\ call.pre.newer # <<>>) =>
            call.pre.older[1] < call.pre.newer[1]) =>
        /\ call.res \in {"true", "false"}
        /\ (call.res = "true") <=>
              /\ call.pre.older # <<>> => call.pre.older[1] < call.f.stat.mtime
              /\ call.pre.newer # <<>> => call.f.stat.mtime < call.pre.newer[1]

\* both cutoffs set, and a file modified exactly at the later one does not match
C8_Witness ==
    /\ call.op = "changetime" /\ ~call.f.stat.err
    /\ call.pre.older = <<0>> /\ call.pre.newer = <<MaxTime>>
    /\ call.f.stat.mtime = MaxTime
    /\ call.res = "false"

\* a FiletypeMatcher, ChangeTimeMatcher or SizeMatcher with a type or a bound
\* configured
Configured(mt) ==
    \/ mt.kind = "filetype" /\ Len(mt.ftypes) > 0
    \/ mt.kind = "changetime" /\ (mt.older # <<>> \/ mt.newer # <<>>)
    \/ mt.kind = "size" /\ (mt.min >= 0 \/ mt.max >= 0)

StatFailureAlone ==
    (/\ call.op \in {"filetype", "changetime", "size"}
     /\ Configured(call.pre) /\ call.f.stat.err) => call.res = "false"

\* C9 as stated: when the stat fails, a configured FiletypeMatcher,
\* ChangeTimeMatcher or SizeMatcher returns false, and so does a MultiMatcher
\* that contains one.
C9_StatFailureIsFalse ==
    /\ StatFailureAlone
    /\ (/\ call.op = "multi" /\ call.f.stat.err
        /\ \E j \in 1..Len(call.pre.ms) : Configured(call.pre.ms[j])) =>
            call.res = "false"

\* C9 amended: when the stat fails, a configured FiletypeMatcher,
\* ChangeTimeMatcher or SizeMatcher returns false, with valid and with invalid
\* bounds; a MultiMatcher that contains one never returns true, and returns
\* false unless a member placed before it panics.
C9_StatFailureNeverMatches ==
    /\ StatFailureAlone
    /\ (call.op = "multi" /\ call.f.stat.err) =>
          \A j \in 1..Len(call.pre.ms) :
              Configured(call.pre.ms[j]) =>
                  /\ call.res # "true"
                  /\ (\A k \in 1..(j - 1) : MemberOutcome(k).res # "panic") =>
                        call.res = "false"

\* the stat fails and a SizeMatcher with min > max, reached in a MultiMatcher,
\* makes it return false
C9_Witness ==
    /\ call.op = "multi" /\ call.f.stat.err /\ call.res = "false"
    /\ call.invoked > 0
    /\ LET v == call.pre.ms[call.invoked]
       IN  v.kind = "size" /\ v.min > v.max /\ v.max >= 0

\* both bounds set and min > max, or both cutoffs set and older not before newer
InvalidBounds(mt) ==
    \/ mt.kind \in {"size", "depth"} /\ mt.min >= 0 /\ mt.max >= 0 /\ mt.min > mt.max
    \/ /\ mt.kind = "changetime" /\ mt.older # <<>> /\ mt.newer # <<>>
       /\ ~(mt.older[1] < mt.newer[1])

\* C10 as stated: every Match call on a SizeMatcher, DepthMatcher or
\* ChangeTimeMatcher with invalid bounds panics, whatever the path and the
\* filesystem.
C10_InvalidBoundsAlwaysPanic ==
    (call.op \in {"size", "depth", "changetime"} /\ InvalidBounds(call.pre)) =>
        call.res = "panic"

\* C10 amended: a Match call on a DepthMatcher with invalid bounds panics for
\* every path; a Match call on a SizeMatcher or ChangeTimeMatcher with invalid
\* bounds panics when the stat of the path succeeds and returns false when it
\* fails.
C10_InvalidBoundsPanicUnlessStatFails ==
    (call.op \in {"size", "depth", "changetime"} /\ InvalidBounds(call.pre)) =>
        IF call.op = "depth" THEN call.res = "panic"
        ELSE IF call.f.stat.err THEN call.res = "false"
        ELSE call.res = "panic"

\* equal cutoffs are invalid too: the call panics once the stat has succeeded
C10_Witness ==
    /\ call.op = "changetime" /\ ~call.f.stat.err
    /\ call.pre.older # <<>> /\ call.pre.older = call.pre.newer
    /\ call.res = "panic"

=============================================================================
